---- MODULE Spec2Model ----
(***************************************************************************)
(* Model of the two laboratory pipelines, src/lab_7_llm/main.py (sequence  *)
(* classification) and src/lab_8_sft/main.py (summarisation).              *)
(*                                                                         *)
(* Python values are modelled as follows.  None is the record None, a      *)
(* pandas DataFrame is a record                                            *)
(*     [kind |-> "DataFrame", columns, index, rows]                        *)
(* with columns the sequence of column labels, index the sequence of row   *)
(* labels and rows the sequence of rows, each row a function from column   *)
(* label to cell value.  The Python cells True, False and a missing value  *)
(* are the strings "True", "False" and "None": TLC compares only values of *)
(* one type, and a raw column is compared cell by cell.                    *)
(*                                                                         *)
(* Each component (importer, preprocessor, pipeline, evaluator) has its    *)
(* own specification; the variables of the other components keep their     *)
(* initial values in it.                                                   *)
(***************************************************************************)
EXTENDS Integers, Sequences, FiniteSets, TLC

VARIABLES
    lab,            \* which program runs: 7 (lab_7_llm) or 8 (lab_8_sft)
    imp_loaded,     \* RawDataImporter.obtain: the value loaded.to_pandas() gave
    imp_raw_data,   \* RawDataImporter._raw_data
    imp_status,     \* outcome of the last obtain call
    pre_raw_data,   \* RawDataPreprocessor._raw_data
    pre_data,       \* RawDataPreprocessor._data
    pre_analysis,   \* what the last RawDataPreprocessor.analyze call returned
    pre_last,       \* the RawDataPreprocessor method last called
    model,          \* LLMPipeline._model
    dataset,        \* LLMPipeline._dataset (TaskDataset._data)
    batch_size,     \* LLMPipeline._batch_size
    pl_call,        \* the LLMPipeline method last called
    pl_status,      \* "idle", "running", "returned" or the exception raised
    pl_result,      \* the value the last LLMPipeline call returned
    pl_batches,     \* infer_dataset: the batches the DataLoader still holds
    pl_preds,       \* infer_dataset: the predictions collected so far
    tok_calls,      \* texts of each tokenizer call made by the last call
    model_calls,    \* texts of each model call made by the last call
    ev_file,        \* the table pd.read_csv(TaskEvaluator.data_path) gives
    ev_metrics,     \* TaskEvaluator.metrics
    ev_todo,        \* run: the metrics the for loop has not reached yet
    ev_results,     \* run: the local dictionary results
    ev_status,      \* "idle", "running", "returned" or the exception raised
    ev_calls        \* arguments of each compute call made by the last run

imp_vars == <<imp_loaded, imp_raw_data, imp_status>>
pre_vars == <<pre_raw_data, pre_data, pre_analysis, pre_last>>
pl_vars == <<model, dataset, batch_size, pl_call, pl_status, pl_result,
             pl_batches, pl_preds, tok_calls, model_calls>>
ev_vars == <<ev_file, ev_metrics, ev_todo, ev_results, ev_status, ev_calls>>
vars == <<lab, imp_vars, pre_vars, pl_vars, ev_vars>>

-----------------------------------------------------------------------------
(* Bounds *)

MaxRows == 3
MaxLoadRows == 2
MaxBatch == 4
MaxMetrics == 3

Labs == {7, 8}

-----------------------------------------------------------------------------
(* Python and pandas values *)

None == [kind |-> "NoneType"]

\* ColumnNames.SOURCE, ColumnNames.TARGET, ColumnNames.PREDICTION
SOURCE == "source"
TARGET == "target"
PREDICTION == "prediction"

Range(s) == {s[i] : i \in DOMAIN s}

\* pd.DataFrame with a RangeIndex, as load_dataset(...).to_pandas() builds it.
DataFrame(cols, rows) ==
    [kind |-> "DataFrame", columns |-> cols,
     index |-> [i \in DOMAIN rows |-> i - 1], rows |-> rows]

\* isinstance(v, pd.DataFrame)
IsDataFrame(v) == v.kind = "DataFrame"

\* len(df)
NRows(df) == Len(df.rows)

\* df[col]: the cells of a column, in row order
Column(df, col) == [i \in DOMAIN df.rows |-> df.rows[i][col]]

\* All sequences over S of length at most n.
SeqsUpTo(S, n) == UNION {[1..k -> S] : k \in 0..n}


-----------------------------------------------------------------------------
(* pandas operations used by the preprocessors *)

\* df.copy(): a new table with the same labels and cells
Copy(df) == df

\* the label a column gets from rename(columns=mapping)
RenameLabel(mapping, c) == IF c \in DOMAIN mapping THEN mapping[c] ELSE c

\* df.rename(columns=mapping, inplace=True)
Rename(df, mapping) ==
    LET cols == [i \in DOMAIN df.columns |-> RenameLabel(mapping, df.columns[i])]
        old(c) == CHOOSE o \in Range(df.columns) : RenameLabel(mapping, o) = c
    IN  [df EXCEPT !.columns = cols,
                   !.rows = [i \in DOMAIN df.rows |->
                                [c \in Range(cols) |-> df.rows[i][old(c)]]]]

\* df.duplicated(): a row is a duplicate when an earlier row has the same cells
Duplicated(df) ==
    [i \in DOMAIN df.rows |-> \E j \in 1..(i - 1) : df.rows[j] = df.rows[i]]

\* the rows of df at the given positions, each with its index label
TakeRows(df, pos) ==
    [df EXCEPT !.index = [k \in DOMAIN pos |-> df.index[pos[k]]],
               !.rows = [k \in DOMAIN pos |-> df.rows[pos[k]]]]

\* DropDuplicates with keep='last': the last of equal rows is the one kept
DropDuplicatesKeepLast(df) ==
    TakeRows(df, SelectSeq([i \in DOMAIN df.rows |-> i],
                           LAMBDA i : \A j \in (i + 1)..Len(df.rows) :
                                          df.rows[j] # df.rows[i]))

\* df.drop_duplicates(inplace=True): keep='first', the index labels are kept
DropDuplicates(df) ==
    TakeRows(df, SelectSeq([i \in DOMAIN df.rows |-> i],
                           LAMBDA i : ~Duplicated(df)[i]))

\* lambda x: 1 if x is True else 0
ToLabel(x) == IF x = "True" THEN 1 ELSE 0

\* df[TARGET] = df[TARGET].map(lambda x: 1 if x is True else 0)
MapTarget(df) ==
    [df EXCEPT !.rows = [i \in DOMAIN df.rows |->
                            [df.rows[i] EXCEPT ![TARGET] = ToLabel(@)]]]

\* df.drop(labels, axis=1, inplace=True)
DropColumns(df, labels) ==
    LET cols == SelectSeq(df.columns, LAMBDA c : c \notin labels)
    IN  [df EXCEPT !.columns = cols,
                   !.rows = [i \in DOMAIN df.rows |->
                                [c \in Range(cols) |-> df.rows[i][c]]]]

\* df.reset_index(inplace=True): drop is False, so the old index labels become
\* the first column, named "index", and the index becomes 0..n-1
ResetIndex(df) ==
    LET cols == <<"index">> \o df.columns
    IN  [df EXCEPT !.columns = cols,
                   !.index = [i \in DOMAIN df.rows |-> i - 1],
                   !.rows = [i \in DOMAIN df.rows |->
                                [c \in Range(cols) |->
                                    IF c = "index" THEN df.index[i]
                                    ELSE df.rows[i][c]]]]

-----------------------------------------------------------------------------
(* RawDataPreprocessor *)

\* lab 7, RawDataPreprocessor.transform: the value assigned to self._data
Lab7Transform(raw) ==
    ResetIndex(MapTarget(DropDuplicates(
        Rename(Copy(raw), [neutral |-> SOURCE, toxic |-> TARGET]))))

\* lab 8, RawDataPreprocessor.transform: the value assigned to self._data
Lab8Transform(raw) ==
    ResetIndex(Rename(DropColumns(Copy(raw), {"title", "date", "url"}),
                      [article_content |-> SOURCE, summary |-> TARGET]))

\* The texts of the datasets' source columns, and the summaries of lab 8.
Texts == {"a", "bb"}
Summaries == {"x", "y"}

\* The cells of a downloaded text column: a text, or the empty string.
RawTexts == Texts \cup {""}

\* len(x) of a text cell
StrLen(x) == CASE x = "" -> 0 [] x = "a" -> 1 [] x = "bb" -> 2

\* The column names expected in each downloaded dataset.
RawColumns(l) ==
    IF l = 7 THEN <<"neutral", "toxic">>
    ELSE <<"title", "date", "url", "article_content", "summary">>

\* A row of a downloaded dataset: lab 7 pairs a text with a toxicity flag
\* (True, False or missing), lab 8 an article with its summary and metadata.
RawRows(l) ==
    IF l = 7 THEN [neutral : RawTexts, toxic : {"True", "False", "None"}]
    ELSE [title : {"t1", "t2"}, date : {"d"}, url : {"u"},
          article_content : RawTexts, summary : Summaries]

RawTables(l) == {DataFrame(RawColumns(l), rows) : rows \in SeqsUpTo(RawRows(l), MaxRows)}

\* The objects self._raw_data and self._data refer to are told apart by a
\* reference: "raw" is the table the preprocessor was built on.

\* self._data = self._raw_data without the copy: the same object
CopyRefAlias(ref) == ref

\* the object df.copy() returns: a new table, not the one copied
CopyRef(ref) == IF ref = "raw" THEN "data" ELSE "raw"

\* transform, after its in-place operations on the object self._data refers
\* to, which left it holding the table out: what self._raw_data's object holds
RawAfterTransform(raw, out) == IF CopyRef("raw") = "raw" THEN out ELSE raw

Transform7 ==
    /\ lab = 7
    /\ pre_data' = Lab7Transform(pre_raw_data)
    /\ pre_raw_data' = RawAfterTransform(pre_raw_data, pre_data')
    /\ pre_last' = "transform"
    /\ UNCHANGED <<lab, imp_vars, pre_analysis, pl_vars, ev_vars>>

Transform8 ==
    /\ lab = 8
    /\ pre_data' = Lab8Transform(pre_raw_data)
    /\ pre_raw_data' = RawAfterTransform(pre_raw_data, pre_data')
    /\ pre_last' = "transform"
    /\ UNCHANGED <<lab, imp_vars, pre_analysis, pl_vars, ev_vars>>

\* the column whose lengths analyze measures
AnalyzedColumn(l) == IF l = 7 THEN "neutral" ELSE "article_content"

\* raw[col].map(len, na_action='ignore'), without its missing entries: the
\* lengths of the cells that are not missing
Lens(raw, col) ==
    LET cells == SelectSeq(Column(raw, col), LAMBDA x : x # "None")
    IN  [i \in DOMAIN cells |-> StrLen(cells[i])]

\* df.replace('', np.nan): a new table in which the empty cells are missing
ReplaceEmpty(df) ==
    [df EXCEPT !.rows = [i \in DOMAIN df.rows |->
                            [c \in DOMAIN df.rows[i] |->
                                IF df.rows[i][c] = "" THEN "None"
                                ELSE df.rows[i][c]]]]

\* df.dropna(): a new table without the rows that have a missing cell
DropNa(df) ==
    TakeRows(df, SelectSeq([i \in DOMAIN df.rows |-> i],
                           LAMBDA i : \A c \in DOMAIN df.rows[i] :
                                          df.rows[i][c] # "None"))

\* Series.min() and Series.max(), which skip nothing here and are nan (the
\* empty tuple) for no length at all, else the one-element tuple of the value
SeriesMin(lens) ==
    IF lens = <<>> THEN <<>>
    ELSE <<CHOOSE v \in Range(lens) : \A w \in Range(lens) : v <= w>>

SeriesMax(lens) ==
    IF lens = <<>> THEN <<>>
    ELSE <<CHOOSE v \in Range(lens) : \A w \in Range(lens) : v >= w>>

\* analyze: the dictionary returned, or KeyError when the raw table has no
\* column of the analysed name
Analysis(l, raw) ==
    IF AnalyzedColumn(l) \notin Range(raw.columns) THEN [kind |-> "KeyError"]
    ELSE LET lens == Lens(raw, AnalyzedColumn(l))
             data_no_na == DropNa(ReplaceEmpty(raw))
         IN  [kind |-> "dict",
              dataset_number_of_samples |-> NRows(raw),
              dataset_columns |-> Len(raw.columns),
              dataset_duplicates |->
                  Cardinality({i \in DOMAIN raw.rows : Duplicated(raw)[i]}),
              dataset_empty_rows |-> NRows(raw) - NRows(data_no_na),
              dataset_sample_min_len |-> SeriesMin(lens),
              dataset_sample_max_len |-> SeriesMax(lens)]

\* analyze: what self._raw_data's object holds afterwards; map, replace,
\* dropna and duplicated return new objects and nothing is assigned to it
RawAfterAnalyze(raw) == raw

Analyze ==
    /\ pre_analysis' = Analysis(lab, pre_raw_data)
    /\ pre_raw_data' = RawAfterAnalyze(pre_raw_data)
    /\ pre_last' = "analyze"
    /\ UNCHANGED <<lab, imp_vars, pre_data, pl_vars, ev_vars>>

-----------------------------------------------------------------------------
(* RawDataImporter *)

\* What loaded.to_pandas() can give: a table, or a value that is no table
\* (an iterator over tables).
Loadable(l) ==
    {DataFrame(RawColumns(l), rows) : rows \in SeqsUpTo(RawRows(l), MaxLoadRows)}
        \cup {[kind |-> "Iterator"]}

\* obtain, line 42: self._raw_data = loaded.to_pandas()
ObtainRawData(old, loaded) == loaded

\* obtain, lines 44-45: the type check on self._raw_data
ObtainStatus(raw) == IF ~IsDataFrame(raw) THEN "TypeError" ELSE "returned"

Obtain ==
    /\ \E v \in Loadable(lab) :
          /\ imp_loaded' = v
          /\ imp_raw_data' = ObtainRawData(imp_raw_data, v)
    /\ imp_status' = ObtainStatus(imp_raw_data')
    /\ UNCHANGED <<lab, pre_vars, pl_vars, ev_vars>>

-----------------------------------------------------------------------------
(* TaskDataset and the DataLoader *)

\* str(x) of an int class id (lab 7: str(logit.item()))
StrOfInt(x) == IF x = 0 THEN "0" ELSE "1"

\* str(x) of a value that is a str already
StrOfStr(x) == x

\* TaskDataset.__len__
DatasetLen(ds) == NRows(ds)

\* TaskDataset.__getitem__: a 1-tuple holding the source text at iloc[index]
\* (index counts from 0); lab 8 wraps the cell in str().
GetItem(l, ds, index) ==
    IF l = 7 THEN <<ds.rows[index + 1][SOURCE]>>
    ELSE <<StrOfStr(ds.rows[index + 1][SOURCE])>>

\* torch's default collate of a batch of tuples: one entry per tuple field,
\* holding that field of every sample of the batch, in order.
Collate(samples) ==
    [f \in DOMAIN samples[1] |-> [j \in DOMAIN samples |-> samples[j][f]]]

\* The batches with drop_last=True: a last partial batch is not produced.
BatchesDropLast(l, ds, b) ==
    [k \in 1..(DatasetLen(ds) \div b) |->
        Collate([j \in 1..b |-> GetItem(l, ds, (k - 1) * b + j - 1)])]

\* DataLoader(self._dataset, self._batch_size): sequential sampling, batches
\* of b samples, the last one holding what is left (drop_last is False).
Batches(l, ds, b) ==
    LET n == DatasetLen(ds)
        size(k) == IF k * b <= n THEN b ELSE n - (k - 1) * b
    IN  [k \in 1..((n + b - 1) \div b) |->
            Collate([j \in 1..size(k) |-> GetItem(l, ds, (k - 1) * b + j - 1)])]

-----------------------------------------------------------------------------
(* LLMPipeline *)

\* What the external model computes for one text: the argmax class id of the
\* classifier (lab 7), the decoded generated sequence (lab 8).
Outputs(l) == IF l = 7 THEN {0, 1} ELSE {"s1", "s2"}

\* The values self._model can hold: None, a torch.nn.Module (with the output
\* it computes for each text), or an object that is no Module, with or
\* without a config attribute.
Models(l) ==
    {None}
        \cup {[kind |-> "Module", out |-> f] : f \in [Texts -> Outputs(l)]}
        \cup {[kind |-> "object", has_config |-> c] : c \in BOOLEAN}

\* A guard that never holds: the check left out.
NeverFalsy(m) == FALSE

\* not self._model
Falsy(m) == m = None

\* the exception of calling a model that is no Module: self._model(**tokens)
\* on a value that is not callable (lab 7), self._model.generate on a value
\* without that attribute (lab 8)
NotCallable(l) == IF l = 7 THEN "TypeError" ELSE "AttributeError"

\* _infer_batch: the outcome, the predictions returned, and the texts handed
\* to the tokenizer and to the model.
InferBatch(l, m, sample_batch) ==
    LET texts == sample_batch[1]
    IN  IF Falsy(m)
        THEN [status |-> "ValueError", value |-> <<>>, tokenized |-> <<>>, run |-> <<>>]
        ELSE IF m.kind # "Module"
        THEN [status |-> NotCallable(l), value |-> <<>>,
              tokenized |-> <<texts>>, run |-> <<>>]
        ELSE [status |-> "returned",
              value |-> [i \in DOMAIN texts |->
                            IF l = 7 THEN StrOfInt(m.out[texts[i]])
                            ELSE StrOfStr(m.out[texts[i]])],
              tokenized |-> <<texts>>, run |-> <<texts>>]

\* bool(self._model) in infer_sample
Truthy(m) == m # None

\* infer_sample
InferSample ==
    /\ pl_status # "running"
    /\ \E text \in Texts :
          LET sample == <<text>>
              r == InferBatch(lab, model, <<sample>>)
          IN  /\ pl_call' = "infer_sample"
              /\ IF Truthy(model)
                 THEN /\ pl_status' = r.status
                      /\ pl_result' = IF r.status = "returned"
                                      THEN [kind |-> "str", value |-> r.value[1]]
                                      ELSE None
                      /\ tok_calls' = r.tokenized
                      /\ model_calls' = r.run
                 ELSE /\ pl_status' = "returned"
                      /\ pl_result' = None
                      /\ tok_calls' = <<>>
                      /\ model_calls' = <<>>
    /\ pl_batches' = <<>>
    /\ pl_preds' = <<>>
    /\ UNCHANGED <<lab, imp_vars, pre_vars, model, dataset, batch_size, ev_vars>>

\* preds + pred with the operands exchanged
ExtendFront(preds, pred) == pred \o preds

\* preds.extend(pred) (lab 8); acc + pred inside sum(lists, []) (lab 7)
Extend(preds, pred) == preds \o pred

\* sum(lists, []): the lists concatenated from left to right
RECURSIVE SumLists(_)
SumLists(lists) ==
    IF lists = <<>> THEN <<>>
    ELSE Extend(SumLists(SubSeq(lists, 1, Len(lists) - 1)), lists[Len(lists)])

\* pd.DataFrame({'target': dataset.data['target'], 'prediction': preds}): the
\* index is the target column's; a list of another length raises ValueError.
PredictionsFrame(ds, preds) ==
    IF Len(preds) # NRows(ds) THEN [kind |-> "ValueError"]
    ELSE [kind |-> "DataFrame", columns |-> <<TARGET, PREDICTION>>,
          index |-> ds.index,
          rows |-> [i \in DOMAIN ds.rows |->
                       [target |-> ds.rows[i][TARGET], prediction |-> preds[i]]]]

\* infer_dataset, entry: the DataLoader is built over the dataset
InferDatasetStart ==
    /\ pl_status # "running"
    /\ pl_call' = "infer_dataset"
    /\ pl_status' = "running"
    /\ pl_result' = None
    /\ pl_batches' = Batches(lab, dataset, batch_size)
    /\ pl_preds' = <<>>
    /\ tok_calls' = <<>>
    /\ model_calls' = <<>>
    /\ UNCHANGED <<lab, imp_vars, pre_vars, model, dataset, batch_size, ev_vars>>

\* infer_dataset, one iteration over the DataLoader: _infer_batch on the next
\* batch; lab 7 collects the list in the comprehension, lab 8 extends preds.
InferDatasetBatch ==
    /\ pl_call = "infer_dataset" /\ pl_status = "running"
    /\ pl_batches # <<>>
    /\ LET r == InferBatch(lab, model, Head(pl_batches))
       IN  /\ tok_calls' = tok_calls \o r.tokenized
           /\ model_calls' = model_calls \o r.run
           /\ IF r.status = "returned"
              THEN /\ pl_preds' = IF lab = 7 THEN Append(pl_preds, r.value)
                                  ELSE Extend(pl_preds, r.value)
                   /\ pl_batches' = Tail(pl_batches)
                   /\ pl_status' = "running"
              ELSE /\ pl_preds' = pl_preds
                   /\ pl_batches' = pl_batches
                   /\ pl_status' = r.status
    /\ UNCHANGED <<lab, imp_vars, pre_vars, model, dataset, batch_size,
                   pl_call, pl_result, ev_vars>>

\* infer_dataset, after the last batch: the table of targets and predictions
InferDatasetReturn ==
    /\ pl_call = "infer_dataset" /\ pl_status = "running"
    /\ pl_batches = <<>>
    /\ LET preds == IF lab = 7 THEN SumLists(pl_preds) ELSE pl_preds
           frame == PredictionsFrame(dataset, preds)
       IN  /\ pl_status' = IF IsDataFrame(frame) THEN "returned" ELSE frame.kind
           /\ pl_result' = IF IsDataFrame(frame) THEN frame ELSE None
    /\ UNCHANGED <<lab, imp_vars, pre_vars, model, dataset, batch_size,
                   pl_call, pl_batches, pl_preds, tok_calls, model_calls, ev_vars>>

\* analyze_model: self._model.config is read first (AttributeError on a value
\* without that attribute, None included), then the isinstance check raises
\* ValueError for a value that is no Module, then the summary is returned.
AnalyzeModelStatus(m) ==
    IF m = None THEN "AttributeError"
    ELSE IF m.kind = "object" /\ ~m.has_config THEN "AttributeError"
    ELSE IF m.kind # "Module" THEN "ValueError"
    ELSE "returned"

\* the keys of the dictionary analyze_model returns
AnalysisKeys ==
    {"input_shape", "embedding_size", "output_shape", "num_trainable_params",
     "vocab_size", "size", "max_context_length"}

AnalyzeModel ==
    /\ pl_status # "running"
    /\ pl_call' = "analyze_model"
    /\ pl_status' = AnalyzeModelStatus(model)
    /\ pl_result' = IF AnalyzeModelStatus(model) = "returned"
                    THEN [kind |-> "dict", keys |-> AnalysisKeys]
                    ELSE None
    /\ pl_batches' = <<>>
    /\ pl_preds' = <<>>
    /\ tok_calls' = <<>>
    /\ model_calls' = <<>>
    /\ UNCHANGED <<lab, imp_vars, pre_vars, model, dataset, batch_size, ev_vars>>

\* The targets of a preprocessed table: 0/1 labels (lab 7), summaries (lab 8).
Targets(l) == IF l = 7 THEN {0, 1} ELSE Summaries

\* The preprocessed tables a TaskDataset is built on: the columns transform
\* leaves, a RangeIndex, any texts and targets.
Datasets(l) ==
    {[kind |-> "DataFrame", columns |-> <<"index", SOURCE, TARGET>>,
      index |-> [i \in DOMAIN rows |-> i - 1],
      rows |-> [i \in DOMAIN rows |->
                   [index |-> i - 1, source |-> rows[i][1], target |-> rows[i][2]]]] :
        rows \in SeqsUpTo(Texts \X Targets(l), MaxRows)}

-----------------------------------------------------------------------------
(* TaskEvaluator *)

\* A dictionary without entries.
EmptyDict == [k \in {} |-> None]

\* str(metric) of the metrics each lab's evaluation is run with.
MetricNames(l) == IF l = 7 THEN {"f1", "precision"} ELSE {"bleu", "rouge", "squad"}

\* Metrics.ROUGE.value
ROUGE == "rouge"

\* The keys of the dictionary that the metric's compute returns.
ResultFields(metric) ==
    CASE metric = "f1" -> {"f1"}
      [] metric = "precision" -> {"precision"}
      [] metric = "bleu" -> {"bleu", "precisions", "brevity_penalty", "length_ratio",
                             "translation_length", "reference_length"}
      [] metric = ROUGE -> {"rouge1", "rouge2", "rougeL", "rougeLsum"}
      [] metric = "squad" -> {"exact_match", "f1"}

\* load(metric).compute(predictions=p, references=r): each field's score is
\* the external metric's, identified by the metric, the field and the two
\* arguments it was computed from.
Compute(metric, p, r) ==
    [f \in ResultFields(metric) |->
        [metric |-> metric, field |-> f, predictions |-> p, references |-> r]]

\* lab 7, run: the arguments of compute, predictions=target2pred['target'],
\* references=target2pred['prediction']
Lab7Args(file) ==
    [predictions |-> Column(file, TARGET), references |-> Column(file, PREDICTION)]

\* lab 8, run: the arguments of compute, predictions=target2pred['prediction'],
\* references=target2pred['target']
Lab8Args(file) ==
    [predictions |-> Column(file, PREDICTION), references |-> Column(file, TARGET)]

\* lab 7, run: results.update(result)
Lab7Store(results, metric, result) == result @@ results

\* lab 8's store done as lab 7's: results.update(result)
Lab8StoreUpdate(results, metric, result) == result @@ results

\* lab 8, run: the field of the result that is kept
ResultKey(metric) == IF metric = ROUGE THEN "rougeL" ELSE metric

\* lab 8, run: results[metric] = result['rougeL'] or result[metric]
Lab8Store(results, metric, result) ==
    (metric :> result[ResultKey(metric)]) @@ results

\* run, entry: the predictions are read and results is the empty dictionary
EvalStart ==
    /\ ev_status # "running"
    /\ ev_status' = "running"
    /\ ev_todo' = ev_metrics
    /\ ev_results' = EmptyDict
    /\ ev_calls' = <<>>
    /\ UNCHANGED <<lab, imp_vars, pre_vars, pl_vars, ev_file, ev_metrics>>

\* run, one iteration of the for loop: the metric is loaded and computed,
\* which the external library either completes or fails with an exception
\* (raised says which); the exception, or a KeyError of the result lookup,
\* leaves run.
EvalMetric ==
    /\ ev_status = "running"
    /\ ev_todo # <<>>
    /\ \E raised \in BOOLEAN :
          LET metric == Head(ev_todo)
              args == IF lab = 7 THEN Lab7Args(ev_file) ELSE Lab8Args(ev_file)
              result == Compute(metric, args.predictions, args.references)
          IN  /\ ev_calls' = Append(ev_calls,
                                    [metric |-> metric, raised |-> raised,
                                     predictions |-> args.predictions,
                                     references |-> args.references])
              /\ IF raised
                 THEN /\ ev_status' = "MetricError"
                      /\ UNCHANGED <<ev_todo, ev_results>>
                 ELSE IF lab = 8 /\ ResultKey(metric) \notin DOMAIN result
                 THEN /\ ev_status' = "KeyError"
                      /\ UNCHANGED <<ev_todo, ev_results>>
                 ELSE /\ ev_status' = "running"
                      /\ ev_todo' = Tail(ev_todo)
                      /\ ev_results' = IF lab = 7
                                       THEN Lab7Store(ev_results, metric, result)
                                       ELSE Lab8Store(ev_results, metric, result)
    /\ UNCHANGED <<lab, imp_vars, pre_vars, pl_vars, ev_file, ev_metrics>>

\* run, after the loop: return results
EvalReturn ==
    /\ ev_status = "running"
    /\ ev_todo = <<>>
    /\ ev_status' = "returned"
    /\ UNCHANGED <<lab, imp_vars, pre_vars, pl_vars, ev_file, ev_metrics,
                   ev_todo, ev_results, ev_calls>>

\* What the prediction column of the predictions file holds once read back:
\* class ids (lab 7), generated summaries (lab 8).
ReadPredictions(l) == IF l = 7 THEN {0, 1} ELSE {"s1", "s2"}

\* The tables pd.read_csv gives for a predictions file.
PredictionFiles(l) ==
    {DataFrame(<<TARGET, PREDICTION>>,
               [i \in DOMAIN rows |->
                   [target |-> rows[i][1], prediction |-> rows[i][2]]]) :
        rows \in SeqsUpTo(Targets(l) \X ReadPredictions(l), MaxRows)}

-----------------------------------------------------------------------------
(* Initial states *)

InitImporter ==
    /\ imp_loaded = None
    /\ imp_raw_data = None
    /\ imp_status = "idle"

InitPreprocessor ==
    /\ pre_raw_data = DataFrame(RawColumns(lab), <<>>)
    /\ pre_data = None
    /\ pre_analysis = None
    /\ pre_last = "none"

InitPipeline ==
    /\ model = None
    /\ dataset = None
    /\ batch_size = 1
    /\ pl_call = "none"
    /\ pl_status = "idle"
    /\ pl_result = None
    /\ pl_batches = <<>>
    /\ pl_preds = <<>>
    /\ tok_calls = <<>>
    /\ model_calls = <<>>

InitEvaluator ==
    /\ ev_file = None
    /\ ev_metrics = <<>>
    /\ ev_todo = <<>>
    /\ ev_results = EmptyDict
    /\ ev_status = "idle"
    /\ ev_calls = <<>>

-----------------------------------------------------------------------------
(* Specifications *)

\* An importer, on which obtain is called any number of times.
ImporterInit ==
    /\ lab \in Labs
    /\ InitImporter /\ InitPreprocessor /\ InitPipeline /\ InitEvaluator

ImporterNext == Obtain

SpecImporter == ImporterInit /\ [][ImporterNext]_vars

\* A preprocessor built on any raw table, on which transform is called.
PreprocessorInit ==
    /\ lab \in Labs
    /\ InitImporter /\ InitPipeline /\ InitEvaluator
    /\ pre_raw_data \in RawTables(lab)
    /\ pre_data = None
    /\ pre_analysis = None
    /\ pre_last = "none"

PreprocessorNext == Transform7 \/ Transform8 \/ Analyze

SpecPreprocessor == PreprocessorInit /\ [][PreprocessorNext]_vars

\* A pipeline over any dataset, batch size and model, whose methods are called
\* one after another.
PipelineInit ==
    /\ lab \in Labs
    /\ InitImporter /\ InitPreprocessor /\ InitEvaluator
    /\ model \in Models(lab)
    /\ dataset \in Datasets(lab)
    /\ batch_size \in 1..MaxBatch
    /\ pl_call = "none"
    /\ pl_status = "idle"
    /\ pl_result = None
    /\ pl_batches = <<>>
    /\ pl_preds = <<>>
    /\ tok_calls = <<>>
    /\ model_calls = <<>>

PipelineNext ==
    \/ InferSample
    \/ InferDatasetStart
    \/ InferDatasetBatch
    \/ InferDatasetReturn
    \/ AnalyzeModel

SpecPipeline == PipelineInit /\ [][PipelineNext]_vars

\* An evaluator over any predictions file and any requested metrics.
EvaluatorInit ==
    /\ lab \in Labs
    /\ InitImporter /\ InitPreprocessor /\ InitPipeline
    /\ ev_file \in PredictionFiles(lab)
    /\ ev_metrics \in SeqsUpTo(MetricNames(lab), MaxMetrics)
    /\ ev_todo = <<>>
    /\ ev_results = EmptyDict
    /\ ev_status = "idle"
    /\ ev_calls = <<>>

EvaluatorNext == EvalStart \/ EvalMetric \/ EvalReturn

SpecEvaluator == EvaluatorInit /\ [][EvaluatorNext]_vars

-----------------------------------------------------------------------------
(* Claims about RawDataImporter (SpecImporter) *)

\* C3 as stated: obtain raises TypeError exactly when the loaded value is not
\* a DataFrame; when it returns, the raw data is a DataFrame; when it raises,
\* the raw data is as before the call and holds no non-table value.
C3_ObtainLeavesStateOnRaise ==
    [][/\ (imp_status' = "TypeError") <=> ~IsDataFrame(imp_loaded')
       /\ (imp_status' = "returned") => IsDataFrame(imp_raw_data')
       /\ (imp_status' = "TypeError") =>
              /\ imp_raw_data' = imp_raw_data
              /\ imp_raw_data' = None \/ IsDataFrame(imp_raw_data')]_vars

-----------------------------------------------------------------------------
(* Claims about RawDataPreprocessor (SpecPreprocessor) *)

\* The distinct rows of a table, each at the place of its first occurrence.
RECURSIVE DistinctInOrder(_)
DistinctInOrder(rows) ==
    IF rows = <<>> THEN <<>>
    ELSE LET front == SubSeq(rows, 1, Len(rows) - 1)
             last == rows[Len(rows)]
         IN  IF last \in Range(front) THEN DistinctInOrder(front)
             ELSE Append(DistinctInOrder(front), last)

\* The (source, target) pairs of a preprocessed table, in row order.
Pairs(df) == [i \in DOMAIN df.rows |-> <<df.rows[i][SOURCE], df.rows[i][TARGET]>>]

\* No two rows of the table have the same (source, target) pair.
PairsDistinct(df) ==
    \A i, j \in DOMAIN df.rows : i # j => Pairs(df)[i] # Pairs(df)[j]

\* The rows lab 7 is to keep: the distinct raw rows in order of first
\* occurrence, the target 1 for True and 0 otherwise.
Lab7Expected(raw) ==
    LET kept == DistinctInOrder(raw.rows)
    IN  [i \in DOMAIN kept |->
            <<kept[i].neutral, IF kept[i].toxic = "True" THEN 1 ELSE 0>>]

Transformed(l) == lab = l /\ IsDataFrame(pre_data)

\* C4 as stated: lab 7's transform keeps one row per distinct raw row, the
\* first occurrences in original order, and after the mapping of the target to
\* 0/1 no two rows have the same (source, target) pair, for every raw table.
C4_Lab7DedupEveryTable ==
    Transformed(7) =>
        /\ NRows(pre_data) = Cardinality(Range(pre_raw_data.rows))
        /\ Pairs(pre_data) = Lab7Expected(pre_raw_data)
        /\ PairsDistinct(pre_data)

\* Every toxic cell of the raw table is a boolean.
ToxicIsBool(raw) == \A i \in DOMAIN raw.rows : raw.rows[i].toxic \in {"True", "False"}

\* C4 amended: lab 7's transform keeps one row per distinct raw row, the first
\* occurrences in original order with the target mapped to 0/1; no two rows
\* have the same (source, target) pair when every raw toxic cell is True or
\* False.
C4_Lab7Dedup ==
    Transformed(7) =>
        /\ NRows(pre_data) = Cardinality(Range(pre_raw_data.rows))
        /\ Pairs(pre_data) = Lab7Expected(pre_raw_data)
        /\ ToxicIsBool(pre_raw_data) => PairsDistinct(pre_data)

\* A transformed lab 7 table of three boolean-flagged rows, one a duplicate of
\* an earlier one, with both labels present afterwards.
C4_Witness ==
    /\ Transformed(7)
    /\ ToxicIsBool(pre_raw_data)
    /\ NRows(pre_raw_data) = 3
    /\ NRows(pre_data) = 2
    /\ pre_raw_data.rows[1] = pre_raw_data.rows[3]
    /\ {pre_data.rows[i][TARGET] : i \in DOMAIN pre_data.rows} = {0, 1}

\* C5: lab 8's transform leaves no two rows with the same (source, target)
\* pair, and as many rows as the raw table has distinct rows.
C5_Lab8Dedup ==
    Transformed(8) =>
        /\ PairsDistinct(pre_data)
        /\ NRows(pre_data) = Cardinality(Range(pre_raw_data.rows))

\* The cells of the raw column that transform renames to source, for the rows
\* that transform keeps.
KeptSources(l, raw) ==
    IF l = 7 THEN [i \in DOMAIN DistinctInOrder(raw.rows) |->
                      DistinctInOrder(raw.rows)[i].neutral]
    ELSE [i \in DOMAIN raw.rows |-> raw.rows[i].article_content]

\* C6: after transform the columns are exactly source and target, no original
\* or extra column remains, and each kept row's source is the cell of its
\* original column (neutral in lab 7, article_content in lab 8).
C6_ColumnsExactlySourceTarget ==
    IsDataFrame(pre_data) =>
        /\ Len(pre_data.columns) = 2
        /\ Range(pre_data.columns) = {SOURCE, TARGET}
        /\ Column(pre_data, SOURCE) = KeptSources(lab, pre_raw_data)

\* C11: transform and analyze leave the raw table as it was; once transform
\* has run, any further transform or analyze call leaves the preprocessed
\* table equal to that first result; and any two analyze calls, with
\* transform calls before or between them, return the same values.
C11_RawUnchangedTransformIdempotent ==
    [][/\ pre_raw_data' = pre_raw_data
       /\ IsDataFrame(pre_data) => pre_data' = pre_data
       /\ (pre_analysis # None /\ pre_analysis' # None) =>
              pre_analysis' = pre_analysis]_vars

\* analyze has just returned on a preprocessor whose transform has run, for a
\* raw table of three rows with duplicate or empty rows, and the preprocessed
\* table's columns differ from the raw table's.
C11_Witness ==
    /\ pre_last = "analyze"
    /\ IsDataFrame(pre_data)
    /\ NRows(pre_raw_data) = 3
    /\ pre_analysis.kind = "dict"
    /\ pre_analysis.dataset_duplicates + pre_analysis.dataset_empty_rows >= 2
    /\ pre_data.columns # pre_raw_data.columns

-----------------------------------------------------------------------------
(* Claims about LLMPipeline (SpecPipeline) *)

\* The number of samples in the batches the DataLoader still holds.
RECURSIVE Remaining(_)
Remaining(batches) ==
    IF batches = <<>> THEN 0
    ELSE Len(Head(batches)[1]) + Remaining(Tail(batches))

\* The number of predictions infer_dataset has collected so far.
Collected == IF lab = 7 THEN Len(SumLists(pl_preds)) ELSE Len(pl_preds)

InferDatasetCalled == pl_call = "infer_dataset"

\* C1: with a model in place, infer_dataset on n rows with any batch size
\* loses and duplicates no prediction at any batch (the last partial one
\* included) and returns a table of the two columns target and prediction
\* with exactly n rows.
C1_InferDatasetRowCount ==
    (InferDatasetCalled /\ model.kind = "Module") =>
        /\ pl_status \in {"running", "returned"}
        /\ Collected + Remaining(pl_batches) = DatasetLen(dataset)
        /\ pl_status = "returned" =>
              /\ IsDataFrame(pl_result)
              /\ pl_result.columns = <<TARGET, PREDICTION>>
              /\ NRows(pl_result) = DatasetLen(dataset)
              /\ Collected = DatasetLen(dataset)

\* infer_dataset has returned for three rows in batches of two: the last
\* batch was a partial one.
C1_Witness ==
    /\ InferDatasetCalled /\ model.kind = "Module"
    /\ pl_status = "returned"
    /\ DatasetLen(dataset) = 3
    /\ batch_size = 2
    /\ Len(model_calls) = 2

\* C2: with no model defined, infer_dataset never reaches the tokenizer or
\* the model and raises ValueError at the first batch of a non-empty dataset;
\* infer_sample returns None without raising and without a tokenizer or
\* model call.
C2_NullModelGuard ==
    model = None =>
        /\ (InferDatasetCalled \/ pl_call = "infer_sample") =>
              tok_calls = <<>> /\ model_calls = <<>>
        /\ (InferDatasetCalled /\ DatasetLen(dataset) > 0) =>
              \/ pl_status = "running" /\ pl_preds = <<>>
                     /\ Remaining(pl_batches) = DatasetLen(dataset)
              \/ pl_status = "ValueError" /\ pl_result = None
        /\ pl_call = "infer_sample" =>
              pl_status = "returned" /\ pl_result = None

\* infer_dataset has raised ValueError on a pipeline without a model.
C2_Witness ==
    /\ model = None
    /\ InferDatasetCalled
    /\ pl_status = "ValueError"
    /\ DatasetLen(dataset) >= 2

\* The prediction the model makes for one text, as _infer_batch returns it.
Prediction(l, m, text) ==
    IF l = 7 THEN (IF m.out[text] = 0 THEN "0" ELSE "1") ELSE m.out[text]

\* C9: in the table infer_dataset returns, row i holds the model's prediction
\* for the source text of dataset row i and the target of dataset row i.
C9_PredictionsAligned ==
    (InferDatasetCalled /\ pl_status = "returned") =>
        /\ DOMAIN pl_result.rows = DOMAIN dataset.rows
        /\ \A i \in DOMAIN dataset.rows :
              /\ pl_result.rows[i][PREDICTION] =
                     Prediction(lab, model, dataset.rows[i][SOURCE])
              /\ pl_result.rows[i][TARGET] = dataset.rows[i][TARGET]

\* infer_dataset has returned over several batches for a dataset on whose
\* texts the model's predictions differ.
C9_Witness ==
    /\ InferDatasetCalled /\ pl_status = "returned"
    /\ DatasetLen(dataset) = 3
    /\ Len(model_calls) >= 2
    /\ \E i, j \in DOMAIN pl_result.rows :
          pl_result.rows[i][PREDICTION] # pl_result.rows[j][PREDICTION]

\* C10: analyze_model raises ValueError, and returns no dictionary, whenever
\* the model is not a torch.nn.Module, None included.
C10_AnalyzeModelValueError ==
    (pl_call = "analyze_model" /\ model.kind # "Module") =>
        pl_status = "ValueError" /\ pl_result = None

-----------------------------------------------------------------------------
(* Claims about TaskEvaluator (SpecEvaluator) *)

\* C7: every compute call of run gets the prediction column of the
\* predictions file as predictions and the target column as references.
C7_PredictionsAgainstReferences ==
    \A k \in DOMAIN ev_calls :
        /\ ev_calls[k].predictions = Column(ev_file, PREDICTION)
        /\ ev_calls[k].references = Column(ev_file, TARGET)

\* The field of a metric's result that lab 8's run is to store: the field of
\* the metric's name, for rouge the field rougeL.
Lab8Field(metric) == IF metric = "rouge" THEN "rougeL" ELSE metric

\* The score lab 8's run is to store for a metric, computed on the file's
\* predictions against its targets.
Lab8Score(metric) ==
    [metric |-> metric,
     field |-> Lab8Field(metric),
     predictions |-> Column(ev_file, PREDICTION),
     references |-> Column(ev_file, TARGET)]

\* The metric of a compute call failed: compute raised, or its result has no
\* field to store.
Failed(call) ==
    call.raised \/ Lab8Field(call.metric) \notin ResultFields(call.metric)

\* C8: lab 8's run computes the metrics in the order given; a metric that
\* fails ends run with an exception, nothing is skipped and no dictionary is
\* returned; otherwise run returns exactly one entry per distinct requested
\* metric, keyed by its name and holding the field of that name (rougeL for
\* rouge).
C8_Lab8ResultsDictionary ==
    lab = 8 =>
        /\ Len(ev_calls) <= Len(ev_metrics)
        /\ \A k \in DOMAIN ev_calls : ev_calls[k].metric = ev_metrics[k]
        /\ ev_status \in {"idle", "running", "returned", "MetricError", "KeyError"}
        /\ (\E k \in DOMAIN ev_calls : Failed(ev_calls[k]))
              <=> ev_status \in {"MetricError", "KeyError"}
        /\ ev_status = "running" =>
              DOMAIN ev_results = {ev_calls[k].metric : k \in DOMAIN ev_calls}
        /\ ev_status = "returned" =>
              /\ Len(ev_calls) = Len(ev_metrics)
              /\ DOMAIN ev_results = Range(ev_metrics)
              /\ \A m \in DOMAIN ev_results : ev_results[m] = Lab8Score(m)

\* Lab 8's run has returned for three requested metrics, rouge twice among
\* them and bleu once.
C8_Witness ==
    /\ lab = 8
    /\ ev_status = "returned"
    /\ Len(ev_metrics) = 3
    /\ Range(ev_metrics) = {"bleu", "rouge"}
    /\ ev_metrics[1] = "rouge" /\ ev_metrics[3] = "rouge"
    /\ NRows(ev_file) >= 2

=============================================================================
